---- MODULE Spec2Model ----
(***************************************************************************)
(* A model of the LP pitch tool:                                           *)
(*   - research_lp (lp_pitch.py): three sequential Perplexity queries,     *)
(*     merged under headings, citations deduplicated;                      *)
(*   - generate_personalized_pitch (lp_pitch.py): fence stripping and JSON *)
(*     parsing of the model reply;                                         *)
(*   - BramblePDF._add_formatted_text (pdf_generator.py): the **bold**     *)
(*     dialect parser and word wrapper;                                    *)
(*   - BramblePDF.add_highlight_box (pdf_generator.py): the height         *)
(*     estimate of a callout box and the text drawn on it;                 *)
(*   - format_pitch_output (lp_pitch.py) and generate_pdf                  *)
(*     (pdf_generator.py): the nine sections of the two documents;         *)
(*   - main (lp_pitch.py): research, generation, exit status and output;   *)
(*   - streamlit_app.py: form submissions, st.session_state and the two    *)
(*     elements written as raw HTML.                                       *)
(* Text is a sequence of one-character strings (or of lexical tokens for   *)
(* the model reply), so that splitting, stripping and matching are         *)
(* computed the way the Python code computes them.                         *)
(***************************************************************************)
EXTENDS Integers, Sequences, FiniteSets

VARIABLES
    \* ---- research_lp
    api_key,        \* get_perplexity_key(): TRUE when a key was found
    pc,             \* position in research_lp
    issued,         \* topics of the queries sent to the API, in order
    inflight,       \* index of the query waiting for its response, 0 if none
    got,            \* the responses returned so far, in order
    research_sections,
    all_citations,
    failedAt,       \* index of the query that raised, 0 if none
    exc,            \* the exception being handled, "" if none
    raised,         \* TRUE when an exception left research_lp
    result,         \* the value research_lp returned
    \* ---- generate_personalized_pitch
    anthropic_key,  \* get_anthropic_key(): TRUE when a key was found
    gpc,            \* position in generate_personalized_pitch
    reply,          \* response.content[0].text as received
    content,        \* the local variable content
    pitch,          \* the value generate_personalized_pitch returned
    created,        \* number of client.messages.create calls made
    \* ---- BramblePDF._add_formatted_text
    text,           \* the argument text, a sequence of characters
    width,          \* the argument width
    fpc,            \* position in _add_formatted_text
    paragraphs,     \* text.split('\n\n')
    pidx,           \* index of the next paragraph (the loop variable i, from 1)
    pdf_x,          \* the pdf's horizontal position, from the left margin
    out,            \* what was emitted: cells and line breaks, in order
    rendered,       \* per paragraph that was not skipped, its number of lines
    \* ---- format_pitch_output, generate_pdf
    record,         \* the argument pitch: a mapping from some of the nine keys
    dpc,            \* position in the two formatters
    markdown,       \* format_pitch_output: the sections written, in order
    pdf_doc,        \* generate_pdf: the sections added, in order
    \* ---- main (lp_pitch.py)
    mpc,            \* position in main
    args,           \* the parsed command line: --json given, --output given
    exit_code,      \* the process's exit status, -1 while it runs
    stdout_doc,     \* what print(output) wrote
    file_doc,       \* what f.write(output) wrote
    \* ---- BramblePDF.add_highlight_box
    bpc,            \* position in add_highlight_box
    box_height,     \* the local variable box_height, in eightieths of a unit
    \* ---- streamlit_app.py
    apc,            \* position in the script
    runs,           \* number of form submissions so far
    form_lp_name,   \* the form's lp_name of the current run
    session_state,  \* st.session_state: a mapping from the keys stored so far
    writer,         \* per stored key, the submission that wrote it
    page            \* the elements written with unsafe_allow_html=True

rvars == <<api_key, pc, issued, inflight, got, research_sections,
           all_citations, failedAt, exc, raised, result>>

gvars == <<anthropic_key, gpc, reply, content, pitch, created>>

fvars == <<text, width, fpc, paragraphs, pidx, pdf_x, out, rendered>>

dvars == <<record, dpc, markdown, pdf_doc>>

\* the parts added to research_lp, generate_personalized_pitch and
\* _add_formatted_text
mvars == <<mpc, args, exit_code, stdout_doc, file_doc>>

bvars == <<bpc, box_height>>

avars == <<apc, runs, form_lp_name, session_state, writer, page>>

xvars == <<dvars, mvars, bvars, avars>>

vars == <<rvars, gvars, fvars, xvars>>

\* ------------------------------------------------------------ bounds
\* longest citation list one query returns
MaxCit == 2

Urls == {"A", "B", "C"}
Texts == {"t1", "t2"}
\* the ways _perplexity_query fails: requests.post raises, raise_for_status
\* raises, response.json() / result["choices"][0]... raises
Failures == {"network", "status", "malformed"}

RECURSIVE SeqsUpTo(_, _)
SeqsUpTo(S, n) ==
    IF n = 0 THEN {<<>>}
    ELSE LET shorter == SeqsUpTo(S, n - 1)
         IN  shorter \cup {Append(s, x) : s \in {t \in shorter : Len(t) = n - 1}, x \in S}

CitLists == SeqsUpTo(Urls, MaxCit)

\* longest model reply, in tokens
MaxReply == 5

\* The lexical tokens of a model reply:
\*   "O"  {"lp_summary": "     the start of a record, up to the opening quote
\*   "C"  "}                   the closing quote and the end of the record
\*   "E"  {}                   an empty record, quote-free
\*   "F"  ```                  a code fence
\*   "J"  json                 the word json (ordinary letters)
\*   "W"  a space
Tokens == {"O", "C", "E", "F", "J", "W"}

Replies == SeqsUpTo(Tokens, MaxReply)

\* longest text given to _add_formatted_text, in characters
MaxText == 6

\* a letter, a space, an asterisk, a newline
Chars == {"a", " ", "*", "\n"}

Whitespace == {" ", "\n"}

InputTexts == SeqsUpTo(Chars, MaxText)

\* the widths and entry positions tried: narrow enough for words to wrap
Widths == {4, 8}

EntryX == {0, 2}

\* ------------------------------------------------------------ helpers
NoResult == [pending |-> TRUE]

Range(s) == {s[i] : i \in 1..Len(s)}

\* list(dict.fromkeys(xs)): keys are inserted in order, a key already present
\* keeps its first position
RECURSIVE FromKeys(_, _)
FromKeys(xs, acc) ==
    IF xs = <<>> THEN acc
    ELSE FromKeys(Tail(xs), IF Head(xs) \in Range(acc) THEN acc ELSE Append(acc, Head(xs)))

RECURSIVE KeepLast(_)
KeepLast(xs) ==
    IF xs = <<>> THEN <<>>
    ELSE IF Head(xs) \in Range(Tail(xs)) THEN KeepLast(Tail(xs))
         ELSE <<Head(xs)>> \o KeepLast(Tail(xs))

DedupLast(xs) == KeepLast(xs)

Dedup(xs) == FromKeys(xs, <<>>)

\* the heading query k's text is filed under
HeadingSwapped(k) ==
    CASE k = 1 -> "Organisation Overview"
      [] k = 2 -> "Recent News & Priorities"
      [] k = 3 -> "Investment Focus & History"

Heading(k) ==
    CASE k = 1 -> "Organisation Overview"
      [] k = 2 -> "Investment Focus & History"
      [] k = 3 -> "Recent News & Priorities"

\* the topic of the k-th query template
Topic(k) ==
    CASE k = 1 -> "organisation overview"
      [] k = 2 -> "investment history and focus"
      [] k = 3 -> "recent news and strategic priorities"

\* except Exception: every failure of _perplexity_query is an Exception
Caught(f) == TRUE

\* where control goes when query k raises inside the try block
OnFailureContinue(k) == IF k < 3 THEN "issue" ELSE "combine"

OnFailure(k) == "except"

\* the value returned by the except branch
ErrorResultNoError(e) == [research |-> <<>>, lp_name |-> "lp"]

ErrorResult(e) == [error |-> e, research |-> <<>>, lp_name |-> "lp"]

NoKeyResult == [error |-> "No Perplexity API key found", research |-> <<>>]

\* research_text: the sections joined, then a Sources section when there
\* are citations
ResearchText(secs, uniq) ==
    IF uniq # <<>> THEN Append(secs, [h |-> "Sources", c |-> uniq]) ELSE secs

\* the inputs drawn when the functions run under main: one text, at most one
\* citation per query, short replies
MaxMainReply == 3

\* and under the Streamlit script: one text, no citations, shorter replies
MaxAppReply == 2

CallTexts == IF mpc = "idle" /\ apc = "idle" THEN Texts ELSE {"t1"}

CallCitLists ==
    IF apc # "idle" THEN {<<>>}
    ELSE IF mpc # "idle" THEN {<<>>, <<"A">>}
    ELSE CitLists

CallReplies ==
    IF apc # "idle" THEN SeqsUpTo(Tokens, MaxAppReply)
    ELSE IF mpc # "idle" THEN SeqsUpTo(Tokens, MaxMainReply)
    ELSE Replies

\* ------------------------------------------------------------ idle parts
\* generate_personalized_pitch not called
GenerateIdle ==
    /\ anthropic_key = TRUE
    /\ gpc = "idle"
    /\ reply = <<>>
    /\ content = <<>>
    /\ pitch = NoResult
    /\ created = 0

\* _add_formatted_text not called
FormatIdle ==
    /\ text = <<>>
    /\ width = 0
    /\ fpc = "idle"
    /\ paragraphs = <<>>
    /\ pidx = 0
    /\ pdf_x = 0
    /\ out = <<>>
    /\ rendered = <<>>

\* the formatters not called
DocsIdle ==
    /\ record = <<>>
    /\ dpc = "idle"
    /\ markdown = <<>>
    /\ pdf_doc = <<>>

\* main not running
MainIdle ==
    /\ mpc = "idle"
    /\ args = [json |-> FALSE, output |-> FALSE]
    /\ exit_code = -1
    /\ stdout_doc = <<>>
    /\ file_doc = <<>>

\* add_highlight_box not called
BoxIdle ==
    /\ bpc = "idle"
    /\ box_height = 0

\* the Streamlit script not running
AppIdle ==
    /\ apc = "idle"
    /\ runs = 0
    /\ form_lp_name = <<>>
    /\ session_state = <<>>
    /\ writer = <<>>
    /\ page = <<>>

ExtraIdle == DocsIdle /\ MainIdle /\ BoxIdle /\ AppIdle

\* research_lp not called
ResearchIdle ==
    /\ api_key = TRUE
    /\ pc = "idle"
    /\ issued = <<>>
    /\ inflight = 0
    /\ got = <<>>
    /\ research_sections = <<>>
    /\ all_citations = <<>>
    /\ failedAt = 0
    /\ exc = ""
    /\ raised = FALSE
    /\ result = NoResult

\* ------------------------------------------------------------ text helpers
\* s.startswith(p)
StartsWith(s, p) == Len(s) >= Len(p) /\ SubSeq(s, 1, Len(p)) = p

\* s.endswith(p)
EndsWith(s, p) == Len(s) >= Len(p) /\ SubSeq(s, Len(s) - Len(p) + 1, Len(s)) = p

\* s.find(sep) + 1: the first position where sep occurs in s, 0 if none
Find(s, sep) ==
    LET at == {i \in 1..(Len(s) - Len(sep) + 1) : SubSeq(s, i, i + Len(sep) - 1) = sep}
    IN  IF at = {} THEN 0 ELSE CHOOSE i \in at : \A j \in at : i <= j

\* sep in s
Contains(s, sep) == Find(s, sep) # 0

\* s.split(sep): the pieces between the occurrences of sep, found left to
\* right without overlap; always at least one piece
RECURSIVE Split(_, _)
Split(s, sep) ==
    LET i == Find(s, sep)
    IN  IF i = 0 THEN <<s>>
        ELSE <<SubSeq(s, 1, i - 1)>> \o Split(SubSeq(s, i + Len(sep), Len(s)), sep)

\* s.strip() for the whitespace characters ws
RECURSIVE LStrip(_, _)
LStrip(s, ws) == IF s # <<>> /\ Head(s) \in ws THEN LStrip(Tail(s), ws) ELSE s

RECURSIVE RStrip(_, _)
RStrip(s, ws) ==
    IF s # <<>> /\ s[Len(s)] \in ws THEN RStrip(SubSeq(s, 1, Len(s) - 1), ws) ELSE s

Strip(s, ws) == RStrip(LStrip(s, ws), ws)

\* ------------------------------------------------------------ research_lp
InitResearch ==
    /\ api_key \in BOOLEAN
    /\ pc = "start"
    /\ issued = <<>>
    /\ inflight = 0
    /\ got = <<>>
    /\ research_sections = <<>>
    /\ all_citations = <<>>
    /\ failedAt = 0
    /\ exc = ""
    /\ raised = FALSE
    /\ result = NoResult
    /\ GenerateIdle
    /\ FormatIdle
    /\ ExtraIdle

\* the key check left out: the queries are sent whatever get_perplexity_key()
\* returned
CheckKeySkipped ==
    /\ pc = "start"
    /\ pc' = "issue"
    /\ UNCHANGED <<api_key, issued, inflight, got, research_sections,
                   all_citations, failedAt, exc, raised, result>>
    /\ UNCHANGED <<gvars, fvars, xvars>>

\* api_key = get_perplexity_key(); if not api_key: return {...}
CheckKey ==
    /\ pc = "start"
    /\ IF api_key
         THEN pc' = "issue" /\ result' = result
         ELSE pc' = "done" /\ result' = NoKeyResult
    /\ UNCHANGED <<api_key, issued, inflight, got, research_sections,
                   all_citations, failedAt, exc, raised>>
    /\ UNCHANGED <<gvars, fvars, xvars>>

\* requests.post(...) of the next query of the sequence
Issue ==
    /\ pc = "issue"
    /\ inflight = 0
    /\ Len(issued) < 3
    /\ issued' = Append(issued, Topic(Len(issued) + 1))
    /\ inflight' = Len(issued) + 1
    /\ pc' = "wait"
    /\ UNCHANGED <<api_key, got, research_sections, all_citations,
                   failedAt, exc, raised, result>>
    /\ UNCHANGED <<gvars, fvars, xvars>>

\* the query returns {"text", "citations"}: the section is appended under its
\* heading and the citations extend all_citations
ReturnOk ==
    /\ pc = "wait"
    /\ inflight # 0
    /\ \E t \in CallTexts, c \in CallCitLists :
          /\ got' = Append(got, [text |-> t, citations |-> c])
          /\ research_sections' =
                Append(research_sections, [h |-> Heading(inflight), t |-> t])
          /\ all_citations' = all_citations \o c
    /\ inflight' = 0
    /\ pc' = IF inflight < 3 THEN "issue" ELSE "combine"
    /\ UNCHANGED <<api_key, issued, failedAt, exc, raised, result>>
    /\ UNCHANGED <<gvars, fvars, xvars>>

\* the query raises: control leaves the try block for the handler, or the
\* exception leaves research_lp when no handler catches it
ReturnFail ==
    /\ pc = "wait"
    /\ inflight # 0
    /\ \E f \in Failures :
          /\ exc' = f
          /\ pc' = IF Caught(f) THEN OnFailure(inflight) ELSE "done"
          /\ raised' = ~Caught(f)
    /\ failedAt' = inflight
    /\ inflight' = 0
    /\ UNCHANGED <<api_key, issued, got, research_sections, all_citations, result>>
    /\ UNCHANGED <<gvars, fvars, xvars>>

\* except Exception as e: return {"error": str(e), "research": "", ...}
Except ==
    /\ pc = "except"
    /\ result' = ErrorResult(exc)
    /\ pc' = "done"
    /\ UNCHANGED <<api_key, issued, inflight, got, research_sections,
                   all_citations, failedAt, exc, raised>>
    /\ UNCHANGED <<gvars, fvars, xvars>>

\* join the sections, deduplicate the citations, return the success result
Combine ==
    /\ pc = "combine"
    /\ LET uniq == Dedup(all_citations)
       IN  result' = [lp_name |-> "lp",
                      research |-> ResearchText(research_sections, uniq),
                      citations |-> uniq]
    /\ pc' = "done"
    /\ UNCHANGED <<api_key, issued, inflight, got, research_sections,
                   all_citations, failedAt, exc, raised>>
    /\ UNCHANGED <<gvars, fvars, xvars>>

NextResearch == CheckKey \/ Issue \/ ReturnOk \/ ReturnFail \/ Except \/ Combine

Spec == InitResearch /\ [][NextResearch]_vars

\* ------------------------------------------------------------ generate_personalized_pitch
\* json.loads(c) succeeds: optional whitespace around one document, which is
\* the empty record or a record whose string value holds no quote
JsonValid(c) ==
    LET d == Strip(c, {"W"})
    IN  \/ d = <<"E">>
        \/ /\ Len(d) >= 2
           /\ d[1] = "O"
           /\ d[Len(d)] = "C"
           /\ \A i \in 2..(Len(d) - 1) : d[i] \notin {"O", "C"}

\* json.loads(c) for a valid c: the record as its (key, value) pairs
JsonLoads(c) ==
    LET d == Strip(c, {"W"})
    IN  IF d = <<"E">> THEN <<>>
        ELSE << <<"lp_summary", SubSeq(d, 2, Len(d) - 1)>> >>

\* the fence handling: content.split("```json")[1].split("```")[0] when
\* "```json" occurs, else content.split("```")[1].split("```")[0] when "```"
\* occurs, else content unchanged
StripFence(c) ==
    IF Contains(c, <<"F", "J">>)
      THEN Split(Split(c, <<"F", "J">>)[2], <<"F">>)[1]
    ELSE IF Contains(c, <<"F">>)
      THEN Split(Split(c, <<"F">>)[2], <<"F">>)[1]
    ELSE c

\* except json.JSONDecodeError as e: return {"error", "raw_response": content}
ParseErrorResult(c) ==
    [error |-> "Failed to parse response as JSON", raw_response |-> c]

InitGenerate ==
    /\ ResearchIdle
    /\ anthropic_key \in BOOLEAN
    /\ gpc = "start"
    /\ reply = <<>>
    /\ content = <<>>
    /\ pitch = NoResult
    /\ created = 0
    /\ FormatIdle
    /\ ExtraIdle

\* api_key = get_anthropic_key(); if not api_key: return {"error": ...}
GenCheckKey ==
    /\ gpc = "start"
    /\ IF anthropic_key
         THEN gpc' = "call" /\ pitch' = pitch
         ELSE gpc' = "done" /\ pitch' = [error |-> "No Anthropic API key found"]
    /\ UNCHANGED <<anthropic_key, reply, content, created>>
    /\ UNCHANGED <<rvars, fvars, xvars>>

\* client.messages.create(...) returns; content = response.content[0].text
CreateOk ==
    /\ gpc = "call"
    /\ \E r \in CallReplies :
          /\ reply' = r
          /\ content' = r
    /\ created' = created + 1
    /\ gpc' = "strip"
    /\ UNCHANGED <<anthropic_key, pitch>>
    /\ UNCHANGED <<rvars, fvars, xvars>>

\* client.messages.create(...) raises: except Exception as e: return {"error"}
CreateFail ==
    /\ gpc = "call"
    /\ pitch' = [error |-> "api"]
    /\ created' = created + 1
    /\ gpc' = "done"
    /\ UNCHANGED <<anthropic_key, reply, content>>
    /\ UNCHANGED <<rvars, fvars, xvars>>

\* if "```json" in content: ... elif "```" in content: ...
GenStripFence ==
    /\ gpc = "strip"
    /\ content' = StripFence(content)
    /\ gpc' = "parse"
    /\ UNCHANGED <<anthropic_key, reply, pitch, created>>
    /\ UNCHANGED <<rvars, fvars, xvars>>

\* return json.loads(content), or the JSONDecodeError branch
GenParse ==
    /\ gpc = "parse"
    /\ pitch' = IF JsonValid(content)
                  THEN [record |-> JsonLoads(content)]
                  ELSE ParseErrorResult(content)
    /\ gpc' = "done"
    /\ UNCHANGED <<anthropic_key, reply, content, created>>
    /\ UNCHANGED <<rvars, fvars, xvars>>

NextGenerate == GenCheckKey \/ CreateOk \/ CreateFail \/ GenStripFence \/ GenParse

SpecGenerate == InitGenerate /\ [][NextGenerate]_vars

\* ------------------------------------------------------------ _add_formatted_text
\* get_string_width(s): the sum of the widths of the characters of s in the
\* current font (bold or regular), in whole units: a wide capital, a
\* lower-case letter, and the narrow characters
CharWidth(c, bold) ==
    CASE c = "W" -> 4
      [] c = "a" -> IF bold THEN 3 ELSE 2
      [] OTHER   -> 1

RECURSIVE StringWidth(_, _)
StringWidth(s, bold) ==
    IF s = <<>> THEN 0 ELSE CharWidth(Head(s), bold) + StringWidth(Tail(s), bold)

\* the length of the match of \*\*[^*]+\*\* at position p of line, 0 if none:
\* two asterisks, the whole run of non-asterisks after them (at least one),
\* two asterisks
RunLength(line, p) ==
    LET stops == {q \in p..Len(line) : line[q] = "*"}
    IN  IF stops = {} THEN Len(line) - p + 1
        ELSE (CHOOSE q \in stops : \A r \in stops : q <= r) - p

MatchLength(line, p) ==
    IF p + 1 <= Len(line) /\ line[p] = "*" /\ line[p + 1] = "*"
      THEN LET n == RunLength(line, p + 2)
           IN  IF /\ n >= 1
                  /\ p + n + 3 <= Len(line)
                  /\ line[p + n + 2] = "*"
                  /\ line[p + n + 3] = "*"
                 THEN n + 4 ELSE 0
      ELSE 0

\* re.split(r'(\*\*[^*]+\*\*)', line): the text before the leftmost match, the
\* match, and so on for the rest; the last piece is what follows the last match
RECURSIVE RegexSplit(_)
RegexSplit(line) ==
    LET at == {p \in 1..Len(line) : MatchLength(line, p) > 0}
    IN  IF at = {} THEN <<line>>
        ELSE LET p == CHOOSE q \in at : \A r \in at : q <= r
                 m == MatchLength(line, p)
             IN  <<SubSeq(line, 1, p - 1), SubSeq(line, p, p + m - 1)>>
                    \o RegexSplit(SubSeq(line, p + m, Len(line)))

\* part.startswith('**') and part.endswith('**')
IsBoldPart(part) == StartsWith(part, <<"*", "*">>) /\ EndsWith(part, <<"*", "*">>)

\* part[2:-2]
BoldText(part) == SubSeq(part, 3, Len(part) - 2)

\* self.cell(w, 5, t) at horizontal position cx; self.ln(h)
\* self.cell(w, 5, t) at position at; xs and cur record the values of x_start
\* and current_x when the unit was measured
Cell(t, bold, at, w, xs, cur) ==
    [k |-> "cell", t |-> t, bold |-> bold, x |-> at, w |-> w, xs |-> xs, cur |-> cur]

\* if current_x + word_width > x_start + width
OverflowsLate(cx, wu, xs, w) == cx + wu > xs + w + 1

Overflows(cx, wu, xs, w) == cx + wu > xs + w

Ln(h) == [k |-> "ln", h |-> h]

\* the words of a regular part: each non-empty word is placed with a trailing
\* space, after a line break when it would end past xs + w
RECURSIVE RenderWords(_, _, _, _)
RenderWords(words, xs, cx, w) ==
    IF words = <<>> THEN [ev |-> <<>>, cx |-> cx]
    ELSE IF Head(words) = <<>> THEN RenderWords(Tail(words), xs, cx, w)
    ELSE LET word == Head(words) \o <<" ">>
             ww   == StringWidth(word, FALSE)
             wrap == Overflows(cx, ww, xs, w)
             at   == IF wrap THEN xs ELSE cx
             rest == RenderWords(Tail(words), xs, at + ww, w)
         IN  [ev |-> (IF wrap THEN <<Ln(5)>> ELSE <<>>)
                        \o <<Cell(word, FALSE, at, ww, xs, cx)>> \o rest.ev,
              cx |-> rest.cx]

\* for part in parts: a bold part is placed as one cell, a non-empty regular
\* part word by word
RECURSIVE RenderParts(_, _, _, _)
RenderParts(parts, xs, cx, w) ==
    IF parts = <<>> THEN [ev |-> <<>>, cx |-> cx]
    ELSE LET part == Head(parts)
         IN  IF IsBoldPart(part)
               THEN LET pw   == StringWidth(BoldText(part), TRUE)
                        wrap == Overflows(cx, pw, xs, w)
                        at   == IF wrap THEN xs ELSE cx
                        rest == RenderParts(Tail(parts), xs, at + pw, w)
                    IN  [ev |-> (IF wrap THEN <<Ln(5)>> ELSE <<>>)
                                   \o <<Cell(BoldText(part), TRUE, at, pw, xs, cx)>> \o rest.ev,
                         cx |-> rest.cx]
             ELSE IF part # <<>>
               THEN LET here == RenderWords(Split(part, <<" ">>), xs, cx, w)
                        rest == RenderParts(Tail(parts), xs, here.cx, w)
                    IN  [ev |-> here.ev \o rest.ev, cx |-> rest.cx]
             ELSE RenderParts(Tail(parts), xs, cx, w)

\* for line in lines: the stripped line, when not empty, is split into parts,
\* laid out from x_start = self.get_x(), and ended by self.ln(5), which
\* returns the pdf to the left margin
RECURSIVE RenderLines(_, _, _)
RenderLines(lines, px, w) ==
    IF lines = <<>> THEN [ev |-> <<>>, x |-> px]
    ELSE LET line == Strip(Head(lines), Whitespace)
         IN  IF line = <<>> THEN RenderLines(Tail(lines), px, w)
             ELSE LET here == RenderParts(RegexSplit(line), px, px, w)
                      rest == RenderLines(Tail(lines), 0, w)
                  IN  [ev |-> here.ev \o <<Ln(5)>> \o rest.ev, x |-> rest.x]

\* not para.strip()
IsEmptyPara(para) == para = <<>>

IsBlank(para) == Strip(para, Whitespace) = <<>>

LineBreaks(ev) == Len(SelectSeq(ev, LAMBDA e : e.k = "ln" /\ e.h = 5))

InitFormat ==
    /\ ResearchIdle
    /\ GenerateIdle
    /\ ExtraIdle
    /\ text \in InputTexts
    /\ width \in Widths
    /\ pdf_x \in EntryX
    /\ fpc = "start"
    /\ paragraphs = <<>>
    /\ pidx = 0
    /\ out = <<>>
    /\ rendered = <<>>

\* if not text: return
FmtEmpty ==
    /\ fpc = "start"
    /\ text = <<>>
    /\ fpc' = "done"
    /\ UNCHANGED <<text, width, paragraphs, pidx, pdf_x, out, rendered>>
    /\ UNCHANGED <<rvars, gvars, xvars>>

\* paragraphs = text.split('\n\n')
FmtSplit ==
    /\ fpc = "start"
    /\ text # <<>>
    /\ paragraphs' = Split(text, <<"\n", "\n">>)
    /\ pidx' = 1
    /\ fpc' = "para"
    /\ UNCHANGED <<text, width, pdf_x, out, rendered>>
    /\ UNCHANGED <<rvars, gvars, xvars>>

\* if not para.strip(): continue
FmtSkip ==
    /\ fpc = "para"
    /\ pidx <= Len(paragraphs)
    /\ IsBlank(paragraphs[pidx])
    /\ pidx' = pidx + 1
    /\ fpc' = IF pidx = Len(paragraphs) THEN "done" ELSE "para"
    /\ UNCHANGED <<text, width, paragraphs, pdf_x, out, rendered>>
    /\ UNCHANGED <<rvars, gvars, xvars>>

\* one paragraph: its lines, then self.ln(3) unless it is the last of the list
FmtRender ==
    /\ fpc = "para"
    /\ pidx <= Len(paragraphs)
    /\ ~IsBlank(paragraphs[pidx])
    /\ LET r   == RenderLines(Split(paragraphs[pidx], <<"\n">>), pdf_x, width)
           gap == IF pidx < Len(paragraphs) THEN <<Ln(3)>> ELSE <<>>
       IN  /\ out' = out \o r.ev \o gap
           /\ pdf_x' = IF gap # <<>> THEN 0 ELSE r.x
           /\ rendered' = Append(rendered, LineBreaks(r.ev))
    /\ pidx' = pidx + 1
    /\ fpc' = IF pidx = Len(paragraphs) THEN "done" ELSE "para"
    /\ UNCHANGED <<text, width, paragraphs>>
    /\ UNCHANGED <<rvars, gvars, xvars>>

NextFormat == FmtEmpty \/ FmtSplit \/ FmtSkip \/ FmtRender

SpecFormat == InitFormat /\ [][NextFormat]_vars

\* ------------------------------------------------------------ add_highlight_box
\* text_width = 175
TextWidth == 175

\* lines = len(text) / 80 + text.count('\n') + 1
CharsPerLine == 80

\* box_height = max(lines * 6 + 10, 20)
EstimatedLineHeight == 6

BoxPadding == 10

MinBoxHeight == 20

\* self.set_xy(x + 5, y + 4)
TextInsetX == 5

TextInsetY == 4

MaxWords == 5

Max(a, b) == IF a >= b THEN a ELSE b

\* text.count(c)
Count(s, c) == Cardinality({i \in 1..Len(s) : s[i] = c})

\* box_height, times 80 so that len(text) / 80 stays a whole number
BoxHeight(t) ==
    LET lines == Len(t) + CharsPerLine * (Count(t, "\n") + 1)
    IN  Max(lines * EstimatedLineHeight + CharsPerLine * BoxPadding,
            CharsPerLine * MinBoxHeight)

\* n copies of word, joined by sep
RECURSIVE Joined(_, _, _)
Joined(word, sep, n) ==
    IF n = 0 THEN <<>>
    ELSE IF n = 1 THEN word
    ELSE word \o sep \o Joined(word, sep, n - 1)

\* a word of n letters c
Word(c, n) == [i \in 1..n |-> c]

\* the callout texts: up to MaxWords short or long words of narrow or wide
\* letters, separated by a space, a line end or a paragraph end, and every
\* text of up to two characters
BoxTexts ==
    {Joined(Word(c, len), sep, n) :
        c \in {"a", "W"}, len \in {1, 24},
        sep \in {<<" ">>, <<"\n">>, <<"\n", "\n">>}, n \in 0..MaxWords}
    \cup SeqsUpTo(Chars, 2)

\* how far below the top of the box the text drawn so far reaches: the inset
\* and the heights of the line breaks made
RECURSIVE Heights(_)
Heights(ev) ==
    IF ev = <<>> THEN 0
    ELSE (IF Head(ev).k = "ln" THEN Head(ev).h ELSE 0) + Heights(Tail(ev))

TextExtent == TextInsetY + Heights(out)

InitBox ==
    /\ ResearchIdle
    /\ GenerateIdle
    /\ DocsIdle
    /\ MainIdle
    /\ AppIdle
    /\ text \in BoxTexts
    /\ width = 0
    /\ fpc = "idle"
    /\ paragraphs = <<>>
    /\ pidx = 0
    /\ pdf_x = 0
    /\ out = <<>>
    /\ rendered = <<>>
    /\ bpc = "start"
    /\ box_height = 0

\* the height is estimated, the rectangle drawn, the position moved to
\* (x + 5, y + 4), and _add_formatted_text(text, text_width) called
BoxBegin ==
    /\ bpc = "start"
    /\ box_height' = BoxHeight(text)
    /\ pdf_x' = pdf_x + TextInsetX
    /\ width' = TextWidth
    /\ fpc' = "start"
    /\ bpc' = "text"
    /\ UNCHANGED <<text, paragraphs, pidx, out, rendered>>
    /\ UNCHANGED <<rvars, gvars, dvars, mvars, avars>>

\* _add_formatted_text has returned: self.set_y(y + box_height + 4)
BoxEnd ==
    /\ bpc = "text"
    /\ fpc = "done"
    /\ pdf_x' = 0
    /\ bpc' = "done"
    /\ UNCHANGED <<text, width, fpc, paragraphs, pidx, out, rendered, box_height>>
    /\ UNCHANGED <<rvars, gvars, dvars, mvars, avars>>

NextBox == BoxBegin \/ NextFormat \/ BoxEnd

SpecBox == InitBox /\ [][NextBox]_vars

\* ------------------------------------------------------------ format_pitch_output, generate_pdf
\* the nine keys of a pitch record, in the order both formatters read them
Keys == <<"lp_summary", "opening_hook", "thesis_framing", "tailwinds_emphasis",
          "team_highlights", "value_add_framing", "anticipated_questions",
          "conversation_starters", "risks_to_address">>

FieldValues == {"v1", "v2"}

\* every mapping from some of the keys to a value
PitchRecords == UNION {[K -> FieldValues] : K \in SUBSET Range(Keys)}

\* pitch.get(key, 'N/A')
GetOrEmpty(rec, key) == IF key \in DOMAIN rec THEN rec[key] ELSE ""

Get(rec, key) == IF key \in DOMAIN rec THEN rec[key] ELSE "N/A"

\* the heading format_pitch_output writes above the n-th field
MarkdownHeading(n) ==
    <<"LP Profile Summary", "Opening Hook", "Investment Thesis Framing",
      "Key Market Tailwinds to Emphasise", "Team & Advisors to Feature",
      "Value-Add Framing", "Anticipated Questions & Answers",
      "Conversation Starters", "Potential Concerns to Address">>[n]

\* the header generate_pdf adds before the n-th field
PdfHeader(n) ==
    <<"LP Profile", "Opening Hook", "Investment Thesis Framing",
      "Market Tailwinds to Emphasise", "Team & Advisors to Feature",
      "Value-Add Framing", "Anticipated Questions",
      "Conversation Starters", "Potential Concerns to Address">>[n]

\* how generate_pdf lays the n-th field out: add_highlight_box (with its
\* box_type) or add_body_text
PdfKind(n) ==
    CASE n = 1 -> "box:default"
      [] n = 2 -> "box:hook"
      [] n = 9 -> "box:warning"
      [] OTHER -> "body"

\* the f-string of format_pitch_output: the nine sections in order
FormatPitchOutput(rec) ==
    [n \in 1..9 |-> [heading |-> MarkdownHeading(n), body |-> Get(rec, Keys[n])]]

InitDocs ==
    /\ ResearchIdle
    /\ GenerateIdle
    /\ FormatIdle
    /\ MainIdle
    /\ BoxIdle
    /\ AppIdle
    /\ record \in PitchRecords
    /\ dpc = "markdown"
    /\ markdown = <<>>
    /\ pdf_doc = <<>>

\* output = format_pitch_output(lp_name, research, pitch)
DocMarkdown ==
    /\ dpc = "markdown"
    /\ markdown' = FormatPitchOutput(record)
    /\ dpc' = "pdf"
    /\ UNCHANGED <<record, pdf_doc>>
    /\ UNCHANGED <<rvars, gvars, fvars, mvars, bvars, avars>>

\* generate_pdf: pdf.add_section_header(...) and the field's box or body text,
\* one field at a time
DocPdfSection ==
    /\ dpc = "pdf"
    /\ Len(pdf_doc) < 9
    /\ LET n == Len(pdf_doc) + 1
       IN  pdf_doc' = Append(pdf_doc, [header |-> PdfHeader(n),
                                       kind   |-> PdfKind(n),
                                       text   |-> Get(record, Keys[n])])
    /\ UNCHANGED <<record, dpc, markdown>>
    /\ UNCHANGED <<rvars, gvars, fvars, mvars, bvars, avars>>

\* generate_pdf: the footer and return bytes(pdf.output())
DocPdfOutput ==
    /\ dpc = "pdf"
    /\ Len(pdf_doc) = 9
    /\ dpc' = "done"
    /\ UNCHANGED <<record, markdown, pdf_doc>>
    /\ UNCHANGED <<rvars, gvars, fvars, mvars, bvars, avars>>

NextDocs == DocMarkdown \/ DocPdfSection \/ DocPdfOutput

SpecDocs == InitDocs /\ [][NextDocs]_vars

\* ------------------------------------------------------------ main
\* the truth value Python gives d.get(key) for a text-valued entry: false
\* when the key is missing or its text is empty
Truthy(d, key, empty) == key \in DOMAIN d /\ d[key] # empty

\* if research.get("error"): ... if not research.get("research"): sys.exit(1)
NeverExits(res) == FALSE

ExitsAfterResearch(res) ==
    Truthy(res, "error", "") /\ ~Truthy(res, "research", <<>>)

\* if pitch.get("error"): ... sys.exit(1)
ExitsAfterGenerate(p) == Truthy(p, "error", "")

\* the parsed record as a mapping from its keys
AsMapping(p) ==
    [k \in {p.record[i][1] : i \in 1..Len(p.record)} |->
        p.record[CHOOSE i \in 1..Len(p.record) : p.record[i][1] = k][2] ]

\* json.dumps({"research": research, "pitch": pitch}) or format_pitch_output
Output(a, res, p) ==
    IF a.json
      THEN [fmt |-> "json", research |-> res, pitch |-> p]
      ELSE [fmt |-> "markdown",
            sections |-> FormatPitchOutput(AsMapping(p)),
            notes |-> res.research]

InitMain ==
    /\ api_key \in BOOLEAN
    /\ pc = "start"
    /\ issued = <<>>
    /\ inflight = 0
    /\ got = <<>>
    /\ research_sections = <<>>
    /\ all_citations = <<>>
    /\ failedAt = 0
    /\ exc = ""
    /\ raised = FALSE
    /\ result = NoResult
    /\ anthropic_key \in BOOLEAN
    /\ gpc = "idle"
    /\ reply = <<>>
    /\ content = <<>>
    /\ pitch = NoResult
    /\ created = 0
    /\ FormatIdle
    /\ DocsIdle
    /\ BoxIdle
    /\ AppIdle
    /\ mpc = "research"
    /\ args \in [json : BOOLEAN, output : BOOLEAN]
    /\ exit_code = -1
    /\ stdout_doc = <<>>
    /\ file_doc = <<>>

\* research = research_lp(...) has returned: exit with status 1, or call
\* generate_personalized_pitch
MainAfterResearch ==
    /\ mpc = "research"
    /\ pc = "done"
    /\ IF raised \/ ExitsAfterResearch(result)
         THEN mpc' = "exit" /\ exit_code' = 1 /\ gpc' = gpc
         ELSE mpc' = "generate" /\ exit_code' = exit_code /\ gpc' = "start"
    /\ UNCHANGED <<args, stdout_doc, file_doc>>
    /\ UNCHANGED <<anthropic_key, reply, content, pitch, created>>
    /\ UNCHANGED <<rvars, fvars, dvars, bvars, avars>>

\* pitch = generate_personalized_pitch(...) has returned an error: exit 1
MainExitAfterGenerate ==
    /\ mpc = "generate"
    /\ gpc = "done"
    /\ ExitsAfterGenerate(pitch)
    /\ mpc' = "exit"
    /\ exit_code' = 1
    /\ UNCHANGED <<args, stdout_doc, file_doc>>
    /\ UNCHANGED <<rvars, gvars, fvars, dvars, bvars, avars>>

\* the document is built and written to the file or printed
MainOutput ==
    /\ mpc = "generate"
    /\ gpc = "done"
    /\ ~ExitsAfterGenerate(pitch)
    /\ LET output == Output(args, result, pitch)
       IN  IF args.output
             THEN file_doc' = <<output>> /\ stdout_doc' = stdout_doc
             ELSE stdout_doc' = <<output>> /\ file_doc' = file_doc
    /\ mpc' = "exit"
    /\ exit_code' = 0
    /\ UNCHANGED args
    /\ UNCHANGED <<rvars, gvars, fvars, dvars, bvars, avars>>

NextMain ==
    \/ NextResearch
    \/ MainAfterResearch
    \/ NextGenerate
    \/ MainExitAfterGenerate
    \/ MainOutput

SpecMain == InitMain /\ [][NextMain]_vars

\* ------------------------------------------------------------ streamlit_app.py
MaxRuns == 3

MaxName == 2

\* the characters of the texts shown: a letter and the four HTML specials
HtmlChars == {"a", "<", ">", "&", "\""}

HtmlSpecials == {"<", ">", "&", "\""}

HtmlTexts == SeqsUpTo(HtmlChars, MaxName)

\* what the user types into the form's lp_name field
AppNames == {<<>>, <<"a">>, <<"<">>}

StateKeys == {"research", "pitch", "lp_name"}

\* st.session_state.key = val
Assign(ss, key, val) ==
    [k \in DOMAIN ss \cup {key} |-> IF k = key THEN val ELSE ss[k]]

\* the characters of s, each marked with where it comes from
Tag(s, src) == [i \in 1..Len(s) |-> [ch |-> s[i], src |-> src]]

\* an f-string with one placeholder: the literal text around the value as it is
Interpolate(before, value, after) ==
    Tag(<<before>>, "template") \o value \o Tag(<<after>>, "template")

\* f'<p class="section-header">Personalised Pitch for {lp_name}</p>'
HeaderElement(name) ==
    Interpolate("<p class=\"section-header\">Personalised Pitch for ",
                Tag(name, "input"), "</p>")

\* f'<div class="highlight-box">{pitch.get("lp_summary", "N/A")}</div>'
SummaryElement(p) ==
    LET m == AsMapping(p)
    IN  Interpolate("<div class=\"highlight-box\">",
                    IF "lp_summary" \in DOMAIN m
                      THEN Tag(m["lp_summary"], "input")
                      ELSE Tag(<<"N/A">>, "template"),
                    "</div>")

\* if research.get("research"): ... else: st.error(...); st.stop()
StopsAfterResearch(res) == ~Truthy(res, "research", <<>>)

\* if pitch.get("error"): st.error(...); st.stop()
NeverStops(p) == FALSE

StopsAfterGenerate(p) == Truthy(p, "error", "")

\* a research result as a successful run stores it
StoredResearch ==
    [lp_name |-> "lp",
     research |-> <<[h |-> Heading(1), t |-> "t1"], [h |-> Heading(2), t |-> "t1"],
                    [h |-> Heading(3), t |-> "t1"]>>,
     citations |-> <<>>]

\* the pitch records a successful run stores: with or without lp_summary
StoredPitches ==
    {[record |-> <<>>]} \cup
    {[record |-> << <<"lp_summary", v>> >>] : v \in HtmlTexts}

InitApp ==
    /\ ResearchIdle
    /\ GenerateIdle
    /\ FormatIdle
    /\ DocsIdle
    /\ MainIdle
    /\ BoxIdle
    /\ apc = "form"
    /\ runs = 0
    /\ form_lp_name = <<>>
    /\ session_state = <<>>
    /\ writer = <<>>
    /\ page = <<>>

\* the form is submitted: the script runs from the top; an empty name is
\* reported, any other name starts research_lp
Submit ==
    /\ apc = "form"
    /\ runs < MaxRuns
    /\ runs' = runs + 1
    /\ page' = <<>>
    /\ \E n \in AppNames :
          /\ form_lp_name' = n
          /\ IF n = <<>>
               THEN apc' = "display" /\ UNCHANGED rvars
               ELSE /\ apc' = "research"
                    /\ api_key' \in BOOLEAN
                    /\ pc' = "start"
                    /\ issued' = <<>>
                    /\ inflight' = 0
                    /\ got' = <<>>
                    /\ research_sections' = <<>>
                    /\ all_citations' = <<>>
                    /\ failedAt' = 0
                    /\ exc' = ""
                    /\ raised' = FALSE
                    /\ result' = NoResult
    /\ UNCHANGED <<session_state, writer>>
    /\ UNCHANGED <<gvars, fvars, dvars, mvars, bvars>>

\* the script runs without a submission (any other interaction)
Rerun ==
    /\ apc = "form"
    /\ apc' = "display"
    /\ page' = <<>>
    /\ UNCHANGED <<runs, form_lp_name, session_state, writer>>
    /\ UNCHANGED <<rvars, gvars, fvars, dvars, mvars, bvars>>

\* research_lp has returned: st.stop(), or generate_personalized_pitch starts
AppAfterResearch ==
    /\ apc = "research"
    /\ pc = "done"
    /\ IF raised \/ StopsAfterResearch(result)
         THEN apc' = "form" /\ UNCHANGED gvars
         ELSE /\ apc' = "generate"
              /\ anthropic_key' \in BOOLEAN
              /\ gpc' = "start"
              /\ reply' = <<>>
              /\ content' = <<>>
              /\ pitch' = NoResult
              /\ created' = 0
    /\ UNCHANGED <<runs, form_lp_name, session_state, writer, page>>
    /\ UNCHANGED <<rvars, fvars, dvars, mvars, bvars>>

\* generate_personalized_pitch has returned: st.stop(), or go on to store
AppAfterGenerate ==
    /\ apc = "generate"
    /\ gpc = "done"
    /\ apc' = IF StopsAfterGenerate(pitch) THEN "form" ELSE "store_research"
    /\ UNCHANGED <<runs, form_lp_name, session_state, writer, page>>
    /\ UNCHANGED <<rvars, gvars, fvars, dvars, mvars, bvars>>

\* st.session_state.research = research
StoreResearch ==
    /\ apc = "store_research"
    /\ session_state' = Assign(session_state, "research", result)
    /\ writer' = Assign(writer, "research", runs)
    /\ apc' = "store_pitch"
    /\ UNCHANGED <<runs, form_lp_name, page>>
    /\ UNCHANGED <<rvars, gvars, fvars, dvars, mvars, bvars>>

\* st.session_state.pitch = pitch
StorePitch ==
    /\ apc = "store_pitch"
    /\ session_state' = Assign(session_state, "pitch", pitch)
    /\ writer' = Assign(writer, "pitch", runs)
    /\ apc' = "store_lp_name"
    /\ UNCHANGED <<runs, form_lp_name, page>>
    /\ UNCHANGED <<rvars, gvars, fvars, dvars, mvars, bvars>>

\* st.session_state.lp_name = lp_name
StoreName ==
    /\ apc = "store_lp_name"
    /\ session_state' = Assign(session_state, "lp_name", form_lp_name)
    /\ writer' = Assign(writer, "lp_name", runs)
    /\ apc' = "display"
    /\ UNCHANGED <<runs, form_lp_name, page>>
    /\ UNCHANGED <<rvars, gvars, fvars, dvars, mvars, bvars>>

\* if "pitch" in st.session_state: the two st.markdown(..., unsafe_allow_html=True)
Display ==
    /\ apc = "display"
    /\ page' = IF "pitch" \in DOMAIN session_state
                 THEN <<HeaderElement(session_state["lp_name"]),
                        SummaryElement(session_state["pitch"])>>
                 ELSE page
    /\ apc' = "form"
    /\ UNCHANGED <<runs, form_lp_name, session_state, writer>>
    /\ UNCHANGED <<rvars, gvars, fvars, dvars, mvars, bvars>>

NextApp ==
    \/ Submit
    \/ Rerun
    \/ NextResearch
    \/ AppAfterResearch
    \/ NextGenerate
    \/ AppAfterGenerate
    \/ StoreResearch
    \/ StorePitch
    \/ StoreName
    \/ Display

SpecApp == InitApp /\ [][NextApp]_vars

\* the display block alone, over every triple a successful run can have stored
InitHtml ==
    /\ ResearchIdle
    /\ GenerateIdle
    /\ FormatIdle
    /\ DocsIdle
    /\ MainIdle
    /\ BoxIdle
    /\ apc = "display"
    /\ runs = 1
    /\ form_lp_name = <<>>
    /\ \E n \in HtmlTexts \ {<<>>}, p \in StoredPitches :
          session_state = [k \in StateKeys |->
                             CASE k = "research" -> StoredResearch
                               [] k = "pitch" -> p
                               [] OTHER -> n]
    /\ writer = [k \in StateKeys |-> 1]
    /\ page = <<>>

NextHtml == Display

SpecHtml == InitHtml /\ [][NextHtml]_vars

\* ------------------------------------------------------------ claims C1..C5
IsError(r) == "error" \in DOMAIN r

IsSuccess(r) == r # NoResult /\ ~IsError(r)

\* C1: when query k fails, no query with a higher index is issued afterwards,
\* research_lp does not raise and returns a result carrying 'error'; when the
\* first query fails the returned research text is empty.
C1_FailureStopsSequence ==
    failedAt # 0 =>
        /\ Len(issued) = failedAt
        /\ inflight = 0
        /\ ~raised
        /\ pc = "done" =>
              /\ IsError(result)
              /\ failedAt = 1 => result.research = <<>>

C1_Witness ==
    /\ pc = "done"
    /\ failedAt = 1
    /\ issued = <<"organisation overview">>
    /\ IsError(result)

\* C2 (as claimed): when a query fails after earlier ones succeeded, the error
\* result carries the sections gathered from the earlier successful queries.
C2_PartialTextReturned ==
    (pc = "done" /\ failedAt > 1) =>
        /\ IsError(result)
        /\ result.research = research_sections
        /\ result.research # <<>>

\* C3: a success result (no 'error', with 'citations') is returned only when
\* all three queries succeeded; whenever a query failed or no key was found
\* the result carries 'error'.
C3_SuccessOnlyAfterThree ==
    pc = "done" =>
        /\ IsSuccess(result) =>
              /\ api_key
              /\ failedAt = 0
              /\ Len(got) = 3
              /\ "citations" \in DOMAIN result
        /\ (failedAt # 0 \/ ~api_key) => IsError(result)

C3_Witness ==
    /\ pc = "done"
    /\ failedAt = 3
    /\ Len(got) = 2
    /\ IsError(result)
    /\ "citations" \notin DOMAIN result

\* C4: with a key and every query succeeding, exactly three queries are
\* issued, one after another in the order overview, investment, recent
\* activity, each only after the previous one returned, and the merged text
\* holds the three results under the three headings in that order.
C4_ThreeSequentialInOrder ==
    /\ inflight # 0 => (Len(issued) = inflight /\ Len(got) = inflight - 1)
    /\ Len(issued) <= 3
    /\ \A k \in 1..Len(issued) :
          issued[k] = <<"organisation overview",
                        "investment history and focus",
                        "recent news and strategic priorities">>[k]
    /\ (pc = "done" /\ api_key /\ failedAt = 0) =>
          /\ Len(issued) = 3
          /\ Len(result.research) >= 3
          /\ SubSeq(result.research, 1, 3) =
                << [h |-> "Organisation Overview", t |-> got[1].text],
                   [h |-> "Investment Focus & History", t |-> got[2].text],
                   [h |-> "Recent News & Priorities", t |-> got[3].text] >>

C4_Witness ==
    /\ pc = "done"
    /\ api_key
    /\ failedAt = 0
    /\ Len(issued) = 3
    /\ got[1].text = "t1" /\ got[2].text = "t2" /\ got[3].text = "t1"

FirstIndex(xs, x) == CHOOSE i \in 1..Len(xs) : xs[i] = x /\ \A j \in 1..(i - 1) : xs[j] # x

Returned == got[1].citations \o got[2].citations \o got[3].citations

\* C5: the 'citations' of the result hold every URL of the concatenation of
\* the three returned lists exactly once, ordered by first occurrence.
C5_CitationsDedupedInOrder ==
    (pc = "done" /\ IsSuccess(result)) =>
        LET r == result.citations
        IN  /\ Range(r) = Range(Returned)
            /\ \A i, j \in 1..Len(r) : i # j => r[i] # r[j]
            /\ \A i, j \in 1..Len(r) :
                  i < j => FirstIndex(Returned, r[i]) < FirstIndex(Returned, r[j])

C5_Witness ==
    /\ pc = "done"
    /\ IsSuccess(result)
    /\ Returned = <<"A", "B", "A", "C", "B">>
    /\ result.citations = <<"A", "B", "C">>

\* ------------------------------------------------------------ claims C6, C7
\* a reply that is one valid JSON record, bare
BareRecord(r) == JsonValid(r)

\* a reply that is one valid JSON record between ``` or ```json and ```
FencedRecord(r) ==
    /\ Len(r) >= 3
    /\ r[1] = "F"
    /\ r[Len(r)] = "F"
    /\ \/ JsonValid(SubSeq(r, 2, Len(r) - 1))
       \/ r[2] = "J" /\ JsonValid(SubSeq(r, 3, Len(r) - 1))

\* the record such a reply denotes
Denoted(r) ==
    IF BareRecord(r) THEN JsonLoads(r)
    ELSE IF r[2] = "J" THEN JsonLoads(SubSeq(r, 3, Len(r) - 1))
    ELSE JsonLoads(SubSeq(r, 2, Len(r) - 1))

\* C6 (as claimed): for every reply that is a valid JSON record, bare or
\* inside a code fence, generate_personalized_pitch returns exactly the record
\* the JSON denotes, whatever the record's string value holds.
C6_ValidReplyReturned ==
    (gpc = "done" /\ anthropic_key /\ (BareRecord(reply) \/ FencedRecord(reply))) =>
        pitch = [record |-> Denoted(reply)]

\* C7 (as claimed): when the reply does not parse after fence stripping, the
\* result carries 'error' and 'raw_response', the latter equal to the reply as
\* received.
C7_RawResponseIsReply ==
    (/\ gpc = "done"
     /\ anthropic_key
     /\ pitch # [error |-> "api"]
     /\ ~JsonValid(StripFence(reply))) =>
        /\ IsError(pitch)
        /\ "raw_response" \in DOMAIN pitch
        /\ pitch.raw_response = reply

\* ------------------------------------------------------------ claims C8..C10
Cells == SelectSeq(out, LAMBDA e : e.k = "cell")

RECURSIVE Concat(_)
Concat(ss) == IF ss = <<>> THEN <<>> ELSE Head(ss) \o Concat(Tail(ss))

\* the text of all emitted cells, in emission order
Emitted == Concat([i \in 1..Len(Cells) |-> Cells[i].t])

NonBlank(s) == SelectSeq(s, LAMBDA c : c \notin Whitespace)

Stars(s) == Len(SelectSeq(s, LAMBDA c : c = "*"))

\* a well-formed bold span starts at p and its closing marker at q: two
\* asterisks, one or more characters that are neither an asterisk nor a line
\* end, two asterisks
WellFormedAt(t, p, q) ==
    /\ q >= p + 3
    /\ q + 1 <= Len(t)
    /\ t[p] = "*" /\ t[p + 1] = "*" /\ t[q] = "*" /\ t[q + 1] = "*"
    /\ \A i \in (p + 2)..(q - 1) : t[i] \notin {"*", "\n"}

\* the well-formed spans of t, leftmost first and without overlap, as the set
\* of their (start, close) positions, scanning from position from
RECURSIVE BoldSpans(_, _)
BoldSpans(t, from) ==
    LET starts == {p \in from..Len(t) : \E q \in p..Len(t) : WellFormedAt(t, p, q)}
    IN  IF starts = {} THEN {}
        ELSE LET p == CHOOSE a \in starts : \A b \in starts : a <= b
                 q == CHOOSE c \in p..Len(t) : WellFormedAt(t, p, c)
             IN  {<<p, q>>} \cup BoldSpans(t, q + 2)

\* t with the marker characters of its well-formed spans removed
WithoutMarkers(t) ==
    LET marks == UNION {{s[1], s[1] + 1, s[2], s[2] + 1} : s \in BoldSpans(t, 1)}
    IN  Concat([i \in 1..Len(t) |-> IF i \in marks THEN <<>> ELSE <<t[i]>>])

\* C8 (as claimed, read up to whitespace): the concatenation of the emitted
\* span texts equals the input with only the markers of well-formed bold
\* spans removed; no other character is dropped, added or reordered.
C8_OnlyMarkersRemoved ==
    fpc = "done" => NonBlank(Emitted) = NonBlank(WithoutMarkers(text))

\* C9 (as claimed): a '**' that is not part of a well-formed span is emitted
\* as plain text with every asterisk kept: only well-formed spans are bold,
\* and every asterisk outside their markers is emitted.
C9_UnmatchedMarkersLiteral ==
    fpc = "done" =>
        /\ Len(SelectSeq(Cells, LAMBDA e : e.bold)) = Cardinality(BoldSpans(text, 1))
        /\ Stars(Emitted) = Stars(text) - 4 * Cardinality(BoldSpans(text, 1))

\* the double-newline-separated segments of the input that are not
\* whitespace-only
NonBlankSegments ==
    LET segs == Split(text, <<"\n", "\n">>)
    IN  {j \in 1..Len(segs) : \E i \in 1..Len(segs[j]) : segs[j][i] \notin Whitespace}

\* C10: the number of paragraphs rendered equals the number of
\* double-newline-separated segments of the input that are not
\* whitespace-only, and each rendered paragraph emits at least one line.
C10_ParagraphCount ==
    fpc = "done" =>
        /\ Len(rendered) = Cardinality(NonBlankSegments)
        /\ \A j \in 1..Len(rendered) : rendered[j] >= 1

C10_Witness ==
    /\ fpc = "done"
    /\ text = <<"a", "\n", "\n", " ", "\n", "\n">>
    /\ Len(paragraphs) = 3
    /\ rendered = <<1>>

\* ------------------------------------------------------------ claim C11
\* what the n-th section must show: the record's value, or the placeholder
Shown(n) == IF Keys[n] \in DOMAIN record THEN record[Keys[n]] ELSE "N/A"

\* C11: whatever subset of the nine keys is missing from the record,
\* format_pitch_output and generate_pdf complete and emit all nine sections
\* in their fixed order, with the record's value for each present key and
\* 'N/A' for each missing key.
C11_MissingKeysRendered ==
    /\ dpc \in {"pdf", "done"} =>
          /\ Len(markdown) = 9
          /\ \A n \in 1..9 : markdown[n].body = Shown(n)
          /\ [n \in 1..9 |-> markdown[n].heading] =
                <<"LP Profile Summary", "Opening Hook", "Investment Thesis Framing",
                  "Key Market Tailwinds to Emphasise", "Team & Advisors to Feature",
                  "Value-Add Framing", "Anticipated Questions & Answers",
                  "Conversation Starters", "Potential Concerns to Address">>
    /\ \A n \in 1..Len(pdf_doc) : pdf_doc[n].text = Shown(n)
    /\ dpc = "done" =>
          /\ Len(pdf_doc) = 9
          /\ [n \in 1..9 |-> pdf_doc[n].header] =
                <<"LP Profile", "Opening Hook", "Investment Thesis Framing",
                  "Market Tailwinds to Emphasise", "Team & Advisors to Feature",
                  "Value-Add Framing", "Anticipated Questions",
                  "Conversation Starters", "Potential Concerns to Address">>

C11_Witness ==
    /\ dpc = "done"
    /\ DOMAIN record = {"lp_summary", "opening_hook", "thesis_framing",
                        "tailwinds_emphasis", "team_highlights", "value_add_framing"}
    /\ markdown[9].body = "N/A"
    /\ pdf_doc[8].text = "N/A"
    /\ pdf_doc[1].text = "v2"

\* ------------------------------------------------------------ claim C12
\* no output document was produced
NoDocument == stdout_doc = <<>> /\ file_doc = <<>>

\* C12: in main, once research_lp or generate_personalized_pitch has reported
\* an error no document is written and the process exits with a non-zero
\* status; generate_personalized_pitch is never called after a failed
\* research step; a document is written only after both steps succeeded.
C12_ErrorsExitWithoutDocument ==
    /\ (pc = "done" /\ IsError(result)) =>
          /\ mpc \in {"research", "exit"}
          /\ mpc = "exit" => exit_code = 1
          /\ gpc = "idle" /\ created = 0
          /\ NoDocument
    /\ (gpc = "done" /\ IsError(pitch)) =>
          /\ mpc \in {"generate", "exit"}
          /\ mpc = "exit" => exit_code = 1
          /\ NoDocument
    /\ gpc # "idle" => IsSuccess(result)
    /\ ~NoDocument => IsSuccess(result) /\ IsSuccess(pitch) /\ exit_code = 0
    /\ exit_code = 0 => ~NoDocument

C12_Witness ==
    /\ mpc = "exit"
    /\ exit_code = 1
    /\ IsSuccess(result)
    /\ pitch = [error |-> "api"]
    /\ NoDocument

\* ------------------------------------------------------------ claim C13
\* C13: when no Perplexity key is found research_lp sends no query, does not
\* raise, and returns a result with an 'error' entry and empty research text;
\* when no Anthropic key is found generate_personalized_pitch makes no
\* client.messages.create call and returns a result with an 'error' entry.
C13_MissingKeyNoRequest ==
    /\ ~api_key =>
          /\ issued = <<>>
          /\ inflight = 0
          /\ ~raised
          /\ pc \in {"start", "done"}
          /\ pc = "done" =>
                /\ IsError(result)
                /\ result.error # ""
                /\ result.research = <<>>
    /\ ~anthropic_key =>
          /\ created = 0
          /\ reply = <<>>
          /\ gpc \in {"idle", "start", "done"}
          /\ gpc = "done" => IsError(pitch) /\ pitch.error # ""

C13_Witness ==
    /\ ~anthropic_key
    /\ api_key
    /\ Len(issued) = 3
    /\ gpc = "done"
    /\ pitch = [error |-> "No Anthropic API key found"]

\* ------------------------------------------------------------ claim C14
\* C14: in the elements written as raw HTML no character of the input text
\* (the LP name, the lp_summary field) that is one of < > & " appears as it
\* is: each was escaped before the text was put into the markup.
C14_InputEscaped ==
    \A e \in 1..Len(page) : \A i \in 1..Len(page[e]) :
        page[e][i].src = "input" => page[e][i].ch \notin HtmlSpecials

\* ------------------------------------------------------------ claim C17
StoreSteps == {"store_research", "store_pitch", "store_lp_name"}

\* C17: across any sequence of submissions, session_state changes only in
\* the store steps of a run whose research and generation both succeeded;
\* outside the store steps it holds none or all of research, pitch and
\* lp_name, all three written by the same submission; a submission that
\* fails leaves it as it was.
C17_StoredTripleFromOneRun ==
    /\ [](apc \notin StoreSteps =>
             /\ DOMAIN session_state \in {{}, StateKeys}
             /\ DOMAIN writer = DOMAIN session_state
             /\ \A j, k \in DOMAIN writer : writer[j] = writer[k])
    /\ [](apc \in StoreSteps =>
             /\ IsSuccess(result)
             /\ IsSuccess(pitch)
             /\ form_lp_name # <<>>)
    /\ [][apc \notin StoreSteps => session_state' = session_state]_vars

C17_Witness ==
    /\ runs = 3
    /\ apc = "form"
    /\ DOMAIN session_state = StateKeys
    /\ \A k \in StateKeys : writer[k] = 2
    /\ IsError(pitch)
    /\ session_state["lp_name"] # form_lp_name

\* ------------------------------------------------------------ claim C15
\* C15: the height computed for the box is at least what the text drawn on it
\* takes: the top inset, 5 per line drawn (wrapped lines included) and 3 per
\* paragraph gap.
C15_BoxCoversText ==
    bpc \in {"text", "done"} => CharsPerLine * TextExtent <= box_height

\* ------------------------------------------------------------ claim C16
\* the unit placed by event i would have ended past the right margin at the
\* cursor
PastMargin(c) == c.cur + c.w > c.xs + width

\* C16: a unit (a word with its space, or a bold span) that would end past
\* x_start + width at the cursor is placed at x_start, right after a line
\* break; any other unit is placed at the cursor; so every unit ends at or
\* before the right margin or begins at x_start. The units follow one
\* another: the cursor of a unit is where the unit before it ended, or
\* x_start for the first unit of a line.
C16_WrapAtMargin ==
    \A i \in 1..Len(out) : out[i].k = "cell" =>
        LET c == out[i]
        IN  /\ PastMargin(c) => i > 1 /\ out[i - 1] = Ln(5) /\ c.x = c.xs
            /\ ~PastMargin(c) => c.x = c.cur
            /\ c.x + c.w <= c.xs + width \/ c.x = c.xs
            /\ c.w = StringWidth(c.t, c.bold)
            /\ (i > 1 /\ out[i - 1].k = "cell") =>
                  /\ c.cur = out[i - 1].x + out[i - 1].w
                  /\ c.xs = out[i - 1].xs
            /\ (i > 2 /\ out[i - 1].k = "ln" /\ out[i - 2].k = "cell") =>
                  \/ c.cur = out[i - 2].x + out[i - 2].w /\ c.xs = out[i - 2].xs
                        /\ PastMargin(c)
                  \/ c.cur = c.xs /\ c.xs = 0
            /\ (i > 2 /\ out[i - 1].k = "ln" /\ out[i - 2].k = "ln") =>
                  c.cur = c.xs /\ c.xs = 0
            /\ (i = 1 \/ (i = 2 /\ out[1].k = "ln")) => c.cur = c.xs

\* a unit placed at the cursor after another, and the next one wrapped to
\* x_start because it would have ended past the margin
C16_Witness ==
    /\ fpc = "done"
    /\ \E i \in 3..Len(out) :
          /\ out[i].k = "cell"
          /\ out[i - 1] = Ln(5)
          /\ out[i - 2].k = "cell"
          /\ out[i - 2].x > out[i - 2].xs
          /\ out[i].cur = out[i - 2].x + out[i - 2].w
          /\ PastMargin(out[i])
          /\ out[i].x = out[i].xs

====
